---- MODULE Spec2Model ----
(***************************************************************************)
(* Model of hardware/blob_detection/blob_detection.cpp: the single-scale   *)
(* LoG blob detector.  compute_blob_detection sums the fixed-point kernel  *)
(* weights LOG_FILTER[i][j] over the taps whose (ring-wrapped) window      *)
(* pixel is set and compares the sum with LOG_RESPONSE_THRESHOLD.          *)
(*                                                                         *)
(* Fixed-point values (ap_fixed<LOG_NUM_BITS, LOG_INTEGER_BITS>) are kept  *)
(* as their raw two's-complement integer, i.e. in units of 2^-FRAC_BITS.   *)
(* Decimal literals of the source are kept in units of 10^-4.              *)
(***************************************************************************)
EXTENDS Integers, Sequences, FiniteSets

VARIABLES window, start_row, start_col, pc, response, result, trace, reads,
          flips, edge, pos, out

vars == <<window, start_row, start_col, pc, response, result, trace, reads,
          flips, edge, pos, out>>

(***************************************************************************)
(* Bounds of the model                                                     *)
(***************************************************************************)
\* number of single-pixel changes the caller makes to a seed window
MaxFlips == 1

(***************************************************************************)
(* Internal definitions (blob_detection.cpp:31-63)                         *)
(***************************************************************************)
BLOB_FILTER_HEIGHT == 5
BLOB_FILTER_WIDTH == 5

LOG_NUM_BITS == 16

\* a format with no bit before the binary point: ap_fixed<16, 0>
LOG_INTEGER_BITS_none == LOG_NUM_BITS - 16

LOG_INTEGER_BITS == 2

\* ap_fixed<W, I>: W bits in total, I of them (sign included) before the point
FRAC_BITS == LOG_NUM_BITS - LOG_INTEGER_BITS

RECURSIVE Pow2(_)
Pow2(n) == IF n <= 0 THEN 1 ELSE 2 * Pow2(n - 1)

\* the source writes its literals with four decimal digits
DecimalScale == 10000

\* AP_WRAP: a value outside the W-bit two's-complement range wraps around
FixedMin == 0 - Pow2(LOG_NUM_BITS - 1)
FixedMax == Pow2(LOG_NUM_BITS - 1) - 1
FixedModulus == Pow2(LOG_NUM_BITS)
FixedOne == Pow2(FRAC_BITS)

FixedWrap(x) == ((x - FixedMin) % FixedModulus) + FixedMin

\* a conversion that drops the low bits of the magnitude (rounds toward zero)
ToFixed_tozero(lit) ==
    IF lit < 0 THEN FixedWrap(0 - (((0 - lit) * FixedOne) \div DecimalScale))
    ELSE FixedWrap((lit * FixedOne) \div DecimalScale)

\* log_response_t(double): AP_TRN drops the bits below 2^-FRAC_BITS, which
\* rounds toward minus infinity; lit is the literal in units of 10^-4
ToFixed(lit) == FixedWrap((lit * FixedOne) \div DecimalScale)

\* 0.0490 written for 0.490
LOG_RESPONSE_THRESHOLD_LIT_typo == 4900 \div 10

LOG_RESPONSE_THRESHOLD_LIT == 4900

LOG_RESPONSE_THRESHOLD == ToFixed(LOG_RESPONSE_THRESHOLD_LIT)

\* 0.0932 written for 0.0923 in the middle row
LOG_FILTER_LIT_typo ==
    << << -239, -460, -499, -460, -239 >>,
       << -460,  -61,  923,  -61, -460 >>,
       << -499,  923, 3182,  932, -499 >>,
       << -460,  -61,  923,  -61, -460 >>,
       << -239, -460, -499, -460, -239 >> >>

LOG_FILTER_LIT ==
    << << -239, -460, -499, -460, -239 >>,
       << -460,  -61,  923,  -61, -460 >>,
       << -499,  923, 3182,  923, -499 >>,
       << -460,  -61,  923,  -61, -460 >>,
       << -239, -460, -499, -460, -239 >> >>

Rows == 0 .. (BLOB_FILTER_HEIGHT - 1)
Cols == 0 .. (BLOB_FILTER_WIDTH - 1)
Taps == Rows \X Cols
NumTaps == BLOB_FILTER_HEIGHT * BLOB_FILTER_WIDTH

\* the literal of kernel tap (i, j), zero-based as in the source
Lit(i, j) == LOG_FILTER_LIT[i + 1][j + 1]

LOG_FILTER == [i \in Rows |-> [j \in Cols |-> ToFixed(Lit(i, j))]]

(***************************************************************************)
(* compute_blob_detection (blob_detection.cpp:79-97)                       *)
(***************************************************************************)
\* the comparison written with <= for <
WrapIndex_le(start, k, size) ==
    IF start + k <= size THEN start + k ELSE start + k - size

\* lines 86-89: one conditional subtraction instead of a modulo
WrapIndex(start, k, size) ==
    IF start + k < size THEN start + k ELSE start + k - size

InWindow(row, col) == row \in Rows /\ col \in Cols

\* the cell tap (i, j) reads
TapCell(sr, sc, i, j) ==
    << WrapIndex(sr, i, BLOB_FILTER_HEIGHT), WrapIndex(sc, j, BLOB_FILTER_WIDTH) >>

\* the cells outside the window that some tap reads
OutsideCells(sr, sc) ==
    { cell \in { TapCell(sr, sc, t[1], t[2]) : t \in Taps } :
        ~InWindow(cell[1], cell[2]) }

\* row and column exchanged in the window access
ReadPixel_transposed(w, row, col, outside) ==
    IF InWindow(row, col) THEN w[col][row]
    ELSE IF << row, col >> \in DOMAIN outside THEN outside[<< row, col >>] ELSE 0

\* line 90: window[row][col]; a read outside the window is undefined
\* behaviour and yields whatever bit `outside' holds for that cell
ReadPixel(w, row, col, outside) ==
    IF InWindow(row, col) THEN w[row][col]
    ELSE IF << row, col >> \in DOMAIN outside THEN outside[<< row, col >>] ELSE 0

\* line 91: response += LOG_FILTER[i][j] in log_response_t
FixedAdd(a, b) == FixedWrap(a + b)

\* the loop visits the taps row by row: step n (1 .. 25) is tap (i, j)
StepRow(n) == (n - 1) \div BLOB_FILTER_WIDTH
StepCol(n) == (n - 1) % BLOB_FILTER_WIDTH

\* lines 83-94: the value of `response' after each of the first n steps
RECURSIVE Accumulate(_, _, _, _, _)
Accumulate(w, sr, sc, outside, n) ==
    IF n = 0 THEN << >>
    ELSE LET before == Accumulate(w, sr, sc, outside, n - 1)
             prev == IF n = 1 THEN 0 ELSE before[n - 1]
             i == StepRow(n)
             j == StepCol(n)
             cell == TapCell(sr, sc, i, j)
         IN  IF ReadPixel(w, cell[1], cell[2], outside) = 1
             THEN Append(before, FixedAdd(prev, LOG_FILTER[i][j]))
             ELSE Append(before, prev)

\* line 96
Decide(resp) == resp >= LOG_RESPONSE_THRESHOLD

(***************************************************************************)
(* Windows the callers pass                                                *)
(***************************************************************************)
Mod(a, m) == ((a % m) + m) % m

\* the window whose set pixels are the cells under the taps of T when the
\* ring is rotated by (sr, sc)
WindowOfTaps(T, sr, sc) ==
    [r \in Rows |-> [c \in Cols |->
        IF << Mod(r - sr, BLOB_FILTER_HEIGHT), Mod(c - sc, BLOB_FILTER_WIDTH) >> \in T
        THEN 1 ELSE 0]]

CenterTap == << 2, 2 >>
CrossTaps == { << 1, 2 >>, << 2, 1 >>, << 2, 3 >>, << 3, 2 >> }
PeakTaps == { CenterTap } \cup CrossTaps

\* empty, centre, centre with one and two arms of the cross, the cross with
\* and without its centre, and the full window
SeedTaps ==
    { {}, { CenterTap }, { CenterTap, << 1, 2 >> },
      { CenterTap, << 1, 2 >>, << 2, 1 >> }, PeakTaps, CrossTaps, Taps }

Offsets == 0 .. (BLOB_FILTER_HEIGHT - 1)
\* offsets a caller that breaks the contract may pass
UncheckedOffsets == (0 - 1) .. BLOB_FILTER_HEIGHT

NoReads == [i \in Rows |-> [j \in Cols |-> << 0, 0 >>]]

SetPixel(w, r, c, v) == [w EXCEPT ![r][c] = v]

(***************************************************************************)
(* The window source and the raster driver (windowfetch.h, blob_detection.h*)
(* are outside this file; modelled from the interface description)         *)
(***************************************************************************)
IMAGE_SIZE == 7
SQUARE_CENTER == 3

\* the test image: one 5x5 all-on square centred at (3, 3)
Image(r, c) ==
    IF /\ r >= SQUARE_CENTER - 2 /\ r <= SQUARE_CENTER + 2
       /\ c >= SQUARE_CENTER - 2 /\ c <= SQUARE_CENTER + 2
    THEN 1 ELSE 0

EdgePolicies == { "zero", "clamp", "wrap", "mirror" }

EdgeIndex(x, policy) ==
    IF x >= 0 /\ x < IMAGE_SIZE THEN x
    ELSE IF policy = "clamp" THEN (IF x < 0 THEN 0 ELSE IMAGE_SIZE - 1)
    ELSE IF policy = "wrap" THEN Mod(x, IMAGE_SIZE)
    ELSE IF policy = "mirror" THEN (IF x < 0 THEN 0 - x ELSE 2 * (IMAGE_SIZE - 1) - x)
    ELSE 0 - 1

ImagePixel(r, c, policy) ==
    LET rr == EdgeIndex(r, policy)
        cc == EdgeIndex(c, policy)
    IN  IF rr < 0 \/ cc < 0 THEN 0 ELSE Image(rr, cc)

\* the KxK neighbourhood centred on (r, c)
FetchWindow(r, c, policy) ==
    [a \in Rows |-> [b \in Cols |->
        ImagePixel(r + a - (BLOB_FILTER_HEIGHT \div 2),
                   c + b - (BLOB_FILTER_WIDTH \div 2), policy)]]

NumPixels == IMAGE_SIZE * IMAGE_SIZE

(***************************************************************************)
(* State machine                                                           *)
(***************************************************************************)
TypeOK ==
    /\ window \in [Rows -> [Cols -> {0, 1}]]
    /\ start_row \in UncheckedOffsets /\ start_col \in UncheckedOffsets
    /\ pc \in { "idle", "done" }
    /\ response \in FixedMin .. FixedMax
    /\ result \in BOOLEAN
    /\ flips \in 0 .. MaxFlips + 1
    /\ edge \in EdgePolicies
    /\ pos \in 0 .. NumPixels
    /\ Len(out) = pos

NoCall ==
    /\ pc = "idle" /\ response = 0 /\ result = FALSE
    /\ trace = << >> /\ reads = NoReads /\ flips = 0

NoRaster == edge = "zero" /\ pos = 0 /\ out = << >>

\* a caller within the contract: offsets in [0, K), a seed window
Init ==
    /\ start_row \in Offsets /\ start_col \in Offsets
    /\ \E T \in SeedTaps : window = WindowOfTaps(T, start_row, start_col)
    /\ NoCall /\ NoRaster

\* one call of compute_blob_detection(w, sr, sc), lines 79-97
Call(w, sr, sc) ==
    \E outside \in [OutsideCells(sr, sc) -> {0, 1}] :
        LET steps == Accumulate(w, sr, sc, outside, NumTaps)
        IN  /\ trace' = steps
            /\ response' = steps[NumTaps]
            /\ result' = Decide(steps[NumTaps])
            /\ reads' = [i \in Rows |-> [j \in Cols |-> TapCell(sr, sc, i, j)]]
            /\ pc' = "done"

Evaluate ==
    /\ pc = "idle"
    /\ Call(window, start_row, start_col)
    /\ UNCHANGED << window, start_row, start_col, flips, edge, pos, out >>

\* the caller sets one more pixel of the window and calls again
TurnOn(r, c) ==
    /\ pc = "done" /\ flips < MaxFlips
    /\ window[r][c] = 0
    /\ window' = SetPixel(window, r, c, 1)
    /\ flips' = flips + 1
    /\ Call(window', start_row, start_col)
    /\ UNCHANGED << start_row, start_col, edge, pos, out >>

\* the caller clears one pixel of the window and calls again
TurnOff(r, c) ==
    /\ pc = "done" /\ flips < MaxFlips
    /\ window[r][c] = 1
    /\ window' = SetPixel(window, r, c, 0)
    /\ flips' = flips + 1
    /\ Call(window', start_row, start_col)
    /\ UNCHANGED << start_row, start_col, edge, pos, out >>

Next ==
    \/ Evaluate
    \/ \E r \in Rows, c \in Cols : TurnOn(r, c)
    \/ \E r \in Rows, c \in Cols : TurnOff(r, c)

Spec == Init /\ [][Next]_vars

(***************************************************************************)
(* Exhaustive sweep over the responses: the response of a window depends   *)
(* on how many pixels are set under the taps of each weight, so one window *)
(* per vector of counts covers every value the response can take.          *)
(***************************************************************************)
ClassValues == { Lit(t[1], t[2]) : t \in Taps }
ClassSize(v) == Cardinality({ t \in Taps : Lit(t[1], t[2]) = v })
MaxClassSize == CHOOSE n \in 0 .. NumTaps :
    /\ \A v \in ClassValues : ClassSize(v) <= n
    /\ \E v \in ClassValues : ClassSize(v) = n

\* position of tap t in the loop order
TapOrder(t) == t[1] * BLOB_FILTER_WIDTH + t[2]

\* how many taps of the same weight the loop visits before t
Rank == [t \in Taps |->
    Cardinality({ u \in Taps : /\ Lit(u[1], u[2]) = Lit(t[1], t[2])
                                /\ TapOrder(u) < TapOrder(t) })]

CountVectors ==
    { cnt \in [ClassValues -> 0 .. MaxClassSize] :
        \A v \in ClassValues : cnt[v] <= ClassSize(v) }

CountedTaps(cnt) == { t \in Taps : Rank[t] < cnt[Lit(t[1], t[2])] }

\* every row offset, with the column ring unrotated and rotated the most
SweepColumns == { 0, BLOB_FILTER_WIDTH - 1 }

InitSweep ==
    /\ \E cnt \in CountVectors :
         \E sr \in Offsets, sc \in SweepColumns :
            /\ start_row = sr /\ start_col = sc
            /\ window = WindowOfTaps(CountedTaps(cnt), sr, sc)
    /\ NoCall /\ NoRaster

NextSweep == Evaluate

SpecSweep == InitSweep /\ [][NextSweep]_vars

(***************************************************************************)
(* A caller outside the contract: offsets -1 .. K                          *)
(***************************************************************************)
InitUnchecked ==
    /\ start_row \in UncheckedOffsets /\ start_col \in UncheckedOffsets
    /\ \E T \in SeedTaps : window = WindowOfTaps(T, start_row, start_col)
    /\ NoCall /\ NoRaster

NextUnchecked == Evaluate

SpecUnchecked == InitUnchecked /\ [][NextUnchecked]_vars

(***************************************************************************)
(* The raster driver over the test image, start_row = start_col = 0        *)
(***************************************************************************)
ZeroWindow == [r \in Rows |-> [c \in Cols |-> 0]]

InitRaster ==
    /\ edge \in EdgePolicies
    /\ pos = 0 /\ out = << >>
    /\ window = ZeroWindow /\ start_row = 0 /\ start_col = 0
    /\ NoCall

RasterStep ==
    /\ pos < NumPixels
    /\ window' = FetchWindow(pos \div IMAGE_SIZE, pos % IMAGE_SIZE, edge)
    /\ start_row' = 0 /\ start_col' = 0
    /\ Call(window', 0, 0)
    /\ out' = Append(out, result')
    /\ pos' = pos + 1
    /\ UNCHANGED << edge, flips >>

NextRaster == RasterStep

SpecRaster == InitRaster /\ [][NextRaster]_vars

(***************************************************************************)
(* Properties                                                              *)
(***************************************************************************)
Contract == start_row \in Offsets /\ start_col \in Offsets

\* the taps whose window pixel is set, by true modulo
OnTaps ==
    { t \in Taps : window[(start_row + t[1]) % BLOB_FILTER_HEIGHT]
                         [(start_col + t[2]) % BLOB_FILTER_WIDTH] = 1 }

RECURSIVE SumFirst(_, _, _)
SumFirst(k, T, f) ==
    IF k = 0 THEN 0
    ELSE LET t == << (k - 1) \div BLOB_FILTER_WIDTH, (k - 1) % BLOB_FILTER_WIDTH >>
         IN  (IF t \in T THEN f[t] ELSE 0) + SumFirst(k - 1, T, f)

\* the sum of f over the taps of T, in unbounded integers
KernelSum(T, f) == SumFirst(NumTaps, T, f)

StoredWeight == [t \in Taps |-> LOG_FILTER[t[1]][t[2]]]
DecimalWeight == [t \in Taps |-> Lit(t[1], t[2])]
\* the literals truncated at a resolution of 2^-16
Weight16 == [t \in Taps |-> (Lit(t[1], t[2]) * Pow2(16)) \div DecimalScale]

\* C1: every tap (i, j) reads the cell at row (start_row + i) mod K and
\* column (start_col + j) mod K, which lies in the window; with offsets
\* (3, 0) tap (0,0) reads window[3][0] and tap (2,0) reads window[0][0];
\* with offsets (0, 0) tap (i, j) reads window[i][j].
C1_WrapIsModulo ==
    pc = "done" =>
        /\ \A i \in Rows, j \in Cols :
             /\ reads[i][j] = << (start_row + i) % BLOB_FILTER_HEIGHT,
                                 (start_col + j) % BLOB_FILTER_WIDTH >>
             /\ InWindow(reads[i][j][1], reads[i][j][2])
             /\ (start_row = 0 /\ start_col = 0 => reads[i][j] = << i, j >>)
        /\ (start_row = 3 /\ start_col = 0 =>
                reads[0][0] = << 3, 0 >> /\ reads[2][0] = << 0, 0 >>)

C1_Witness ==
    /\ pc = "done" /\ start_row = 3 /\ start_col = 0
    /\ reads[0][0] = << 3, 0 >> /\ reads[2][0] = << 0, 0 >>

\* C2: the call returns true exactly when the sum of the stored kernel
\* weights over the taps whose wrapped pixel is 1 reaches the threshold;
\* the response is that sum, pixels that are 0 add nothing.
C2_DecisionIsThresholdedSum ==
    pc = "done" =>
        /\ response = KernelSum(OnTaps, StoredWeight)
        /\ result = (KernelSum(OnTaps, StoredWeight) >= LOG_RESPONSE_THRESHOLD)

C2_Witness ==
    /\ pc = "done" /\ result = TRUE /\ start_row = 3 /\ start_col = 1
    /\ Cardinality(OnTaps) = 3

\* C5 (as stated): on the peak-match window the response equals 0.6874
\* and the call returns true.
C5_PeakIsExact ==
    (pc = "done" /\ window = WindowOfTaps(PeakTaps, start_row, start_col)) =>
        /\ response * DecimalScale = 6874 * FixedOne
        /\ result = TRUE

\* C5 (amended): on the peak-match window the response is the sum of the
\* five truncated weights, 11261 * 2^-14, which lies less than five quanta
\* below 0.6874, and the call returns true.
C5_PeakIsTruncatedSum ==
    (pc = "done" /\ window = WindowOfTaps(PeakTaps, start_row, start_col)) =>
        /\ response = 11261
        /\ response * DecimalScale < 6874 * FixedOne
        /\ 6874 * FixedOne - response * DecimalScale < 5 * DecimalScale
        /\ result = TRUE

C5_Witness ==
    /\ pc = "done" /\ start_row = 3 /\ start_col = 4
    /\ window = WindowOfTaps(PeakTaps, 3, 4)
    /\ result = TRUE

\* C6: response, kernel weights and threshold have the range [-2, 2) and a
\* resolution of 2^-16: each stored weight, the threshold and the response
\* are what truncation at 2^-16 gives.
C6_SixteenFractionalBits ==
    pc = "done" =>
        /\ FixedMin = 0 - 2 * FixedOne /\ FixedMax = 2 * FixedOne - 1
        /\ \A t \in Taps : StoredWeight[t] * Pow2(16) = Weight16[t] * FixedOne
        /\ LOG_RESPONSE_THRESHOLD * Pow2(16) =
               ((LOG_RESPONSE_THRESHOLD_LIT * Pow2(16)) \div DecimalScale) * FixedOne
        /\ response * Pow2(16) = KernelSum(OnTaps, Weight16) * FixedOne

\* C7: when one more pixel is set and the call repeated, a tap of
\* non-negative weight never lowers the response nor turns true into false,
\* and a tap of negative weight never raises it nor turns false into true.
C7_Step ==
    \A r \in Rows, c \in Cols :
        ( /\ pc = "done" /\ pc' = "done"
          /\ start_row' = start_row /\ start_col' = start_col
          /\ window[r][c] = 0 /\ window' = SetPixel(window, r, c, 1) ) =>
            LET t == << Mod(r - start_row, BLOB_FILTER_HEIGHT),
                        Mod(c - start_col, BLOB_FILTER_WIDTH) >>
            IN  /\ StoredWeight[t] >= 0 =>
                     (response' >= response /\ (result => result'))
                /\ StoredWeight[t] < 0 =>
                     (response' =< response /\ (result' => result))

C7_Monotone == [][C7_Step]_vars

\* centre and one arm, then the caller sets a second arm: a blob
C7_Witness ==
    /\ pc = "done" /\ flips = 1 /\ result = TRUE
    /\ OnTaps = { CenterTap, << 1, 2 >>, << 3, 2 >> }

\* C8: after each of the 25 steps the stored partial response is the exact
\* sum of the previous one and the weight added, inside [-2, 2): no step
\* overflows.
C8_NoOverflow ==
    pc = "done" =>
        LET on == OnTaps IN
        \A n \in 1 .. NumTaps :
            LET prev == IF n = 1 THEN 0 ELSE trace[n - 1]
                t == << StepRow(n), StepCol(n) >>
            IN  /\ trace[n] = prev + (IF t \in on THEN StoredWeight[t] ELSE 0)
                /\ trace[n] >= 0 - 2 * FixedOne
                /\ trace[n] < 2 * FixedOne

\* every positive tap set, no negative one
C8_Witness ==
    /\ pc = "done" /\ start_row = 2 /\ start_col = 4
    /\ OnTaps = PeakTaps
    /\ response = 11261

\* C9: the call returns true only if the pixel under the centre tap is 1;
\* the all-zero window gives false.
C9_NeedsCenter ==
    pc = "done" =>
        /\ (result = TRUE =>
              window[(start_row + 2) % BLOB_FILTER_HEIGHT]
                    [(start_col + 2) % BLOB_FILTER_WIDTH] = 1)
        /\ (window = ZeroWindow => result = FALSE /\ response = 0)

\* the four cross taps without the centre
C9_Witness ==
    /\ pc = "done" /\ OnTaps = CrossTaps /\ result = FALSE
    /\ start_row = 1 /\ start_col = 4

\* C10: the decision equals the one exact decimal arithmetic gives from
\* the four-digit kernel table and the threshold 0.4900.
C10_QuantizationKeepsDecision ==
    pc = "done" =>
        result = (KernelSum(OnTaps, DecimalWeight) >= LOG_RESPONSE_THRESHOLD_LIT)

\* exact sums just below and just above the threshold
C10_Witness ==
    /\ pc = "done" /\ result = FALSE
    /\ KernelSum(OnTaps, DecimalWeight) = 4899

\* C4 (as stated): a call with an offset equal to K or negative produces
\* no decision.
C4_Rejected == ~Contract => pc # "done"

\* C4 (amended): nothing is validated.  A call with an offset equal to K
\* completes and reads, for every tap, the cell offset 0 reads; with both
\* offsets in [0, K] its decision is the one of the offsets taken mod K.  A
\* negative offset makes the first taps read outside the window.
C4_NoValidation ==
    pc = "done" =>
        /\ \A i \in Rows, j \in Cols :
             /\ (start_row = BLOB_FILTER_HEIGHT => reads[i][j][1] = i)
             /\ (start_col = BLOB_FILTER_WIDTH => reads[i][j][2] = j)
        /\ (start_row < 0 => \A j \in Cols : reads[0][j][1] = start_row)
        /\ (start_col < 0 => \A i \in Rows : reads[i][0][2] = start_col)
        /\ (start_row >= 0 /\ start_col >= 0 =>
              /\ response = KernelSum(OnTaps, StoredWeight)
              /\ result = (response >= LOG_RESPONSE_THRESHOLD))

C4_Witness ==
    /\ pc = "done" /\ start_row = BLOB_FILTER_HEIGHT /\ start_col = 0 - 1
    /\ reads[0][0] = << 0, 0 - 1 >>

\* C3 (as stated): the scan of the test image yields true at (3,3) and
\* false at every other coordinate.
C3_OnlyCenter ==
    pos = NumPixels =>
        \A p \in 1 .. NumPixels :
            out[p] = (p = SQUARE_CENTER * IMAGE_SIZE + SQUARE_CENTER + 1)

\* C3 (amended): the scan yields false at every coordinate, (3,3) included:
\* there the window is fully on and the response is the sum of all 25
\* stored weights, -11 * 2^-14.
C3_NoDetection ==
    /\ \A p \in 1 .. Len(out) : out[p] = FALSE
    /\ pos = SQUARE_CENTER * IMAGE_SIZE + SQUARE_CENTER + 1 =>
          /\ OnTaps = Taps
          /\ response = 0 - 11
          /\ result = FALSE

C3_Witness == pos = NumPixels /\ Len(out) = NumPixels /\ edge = "mirror"

====
